---- MODULE Spec2Model ----
(***************************************************************************)
(* Calendar voice bot: the Express server's request pipeline               *)
(* (transcribe -> processIntent -> executeAction -> generateSpeech) over   *)
(* the flat-file event store calendar.json.                                *)
(*                                                                         *)
(* Strings that the code inspects (title, date, time, query, id) are       *)
(* sequences of one-character strings, so that toLowerCase and includes    *)
(* are computed as the code computes them.  A handler is split into one    *)
(* action per await on shared state: requests interleave only there.       *)
(***************************************************************************)
EXTENDS Integers, Sequences, FiniteSets, TLC

VARIABLES file, clock, req, started, localStorage

vars == <<file, clock, req, started, localStorage>>

(* ------------------------------ bounds -------------------------------- *)

\* Requests (voice or text) accepted over a run.
MaxRequests == 3

\* Milliseconds the clock Date.now() reads may advance over a run.
MaxClock == 1

\* Request handlers that may be in flight at once.
Requests == {1, 2}

(* ------------------------------ strings ------------------------------- *)

\* A property that is absent from an object (JavaScript undefined).
Undefined == <<"undefined">>

\* String.prototype.toLowerCase on one character.
LowerChar(c) ==
    CASE c = "A" -> "a"
      [] c = "B" -> "b"
      [] c = "M" -> "m"
      [] c = "P" -> "p"
      [] OTHER -> c

toLowerCase(s) == [i \in 1..Len(s) |-> LowerChar(s[i])]

\* A substring test in which the empty string occurs nowhere.
includesNonEmpty(s, q) ==
    /\ q # <<>>
    /\ \E i \in 1..(Len(s) - Len(q) + 1) : SubSeq(s, i, i + Len(q) - 1) = q

\* String.prototype.includes: q occurs in s as a contiguous substring.
includes(s, q) ==
    \E i \in 1..(Len(s) - Len(q) + 1) : SubSeq(s, i, i + Len(q) - 1) = q

\* JavaScript truthiness of a string-valued property.
Truthy(s) == s # Undefined /\ s # <<>>

(* ------------------------------ store --------------------------------- *)

EventKeys == {"id", "title", "date", "time", "language", "createdAt"}

\* The properties of an event that are copied from intent.data and may be
\* undefined there.
DataKeys == {"title", "date", "time"}

\* JSON.stringify of the events array: a property whose value is undefined
\* is left out of the object.
JSONStringify(events) ==
    [i \in 1..Len(events) |->
        [k \in {f \in EventKeys : f \in DataKeys => events[i][f] # Undefined}
            |-> events[i][k]]]

\* A parse that fills a missing title, date or time with the empty string.
JSONParseDefaulting(doc) ==
    [i \in 1..Len(doc) |->
        [k \in EventKeys |-> IF k \in DOMAIN doc[i] THEN doc[i][k] ELSE <<>>]]

\* JSON.parse of a document written by JSONStringify: reading a property the
\* object lacks gives undefined.
JSONParse(doc) ==
    [i \in 1..Len(doc) |->
        [k \in EventKeys |-> IF k \in DOMAIN doc[i] THEN doc[i][k] ELSE Undefined]]

NoFile == [kind |-> "absent", doc |-> <<>>]
CorruptFile == [kind |-> "corrupt", doc |-> <<>>]
JsonFile(events) == [kind |-> "json", doc |-> JSONStringify(events)]

\* loadEvents: any failure of readFile or JSON.parse yields the empty array.
loadEvents(f) == IF f.kind = "json" THEN JSONParse(f.doc) ELSE <<>>

Digit(n) == CASE n = 0 -> "0" [] n = 1 -> "1" [] n = 2 -> "2" [] n = 3 -> "3"
              [] n = 4 -> "4" [] OTHER -> "5"

\* What Math.random() may contribute to an id.
Randoms == {0, 1}

\* generateId: the clock reading followed by the random part; nothing is
\* compared with the ids already stored.
generateId(now, rnd) == <<Digit(now), Digit(rnd)>>

(* ------------------------------ requests ------------------------------ *)

NoAttempt == [error |-> FALSE, hasConf |-> FALSE, conf |-> 0, text |-> ""]

\* One Deepgram recognition attempt: {result: null, error} on failure, else a
\* result whose first alternative has a transcript and maybe a confidence.
Confidences == {0, 1, 2}
Attempts(text) ==
    { [error |-> TRUE, hasConf |-> FALSE, conf |-> 0, text |-> ""] }
    \cup { [error |-> FALSE, hasConf |-> FALSE, conf |-> 0, text |-> text] }
    \cup { [error |-> FALSE, hasConf |-> TRUE, conf |-> c, text |-> text] :
             c \in Confidences }

NoData == [title |-> Undefined, date |-> Undefined, time |-> Undefined,
           query |-> Undefined]
NoIntent == [action |-> "NONE", language |-> "en", data |-> NoData,
             response |-> ""]

AddIntent(l, t, d, h) ==
    [action |-> "ADD_EVENT", language |-> l, response |-> "reply",
     data |-> [title |-> t, date |-> d, time |-> h, query |-> Undefined]]

DeleteIntent(l, q) ==
    [action |-> "DELETE_EVENT", language |-> l, response |-> "reply",
     data |-> [NoData EXCEPT !.query = q]]

PlainIntent(a, l) ==
    [action |-> a, language |-> l, response |-> "reply", data |-> NoData]

\* The structured intents JSON.parse may return from the model's text: the
\* model's output is not validated, so a time need not be HH:MM and a title
\* or a query may be missing.
Intents ==
    { AddIntent("en", <<"A", "b">>, <<"0", "1", "-", "1", "5">>,
                <<"1", "5", ":", "0", "0">>),
      AddIntent("hi", <<"A", "b">>, <<"0", "1", "-", "1", "5">>, <<"3", "P", "M">>),
      AddIntent("en", Undefined, <<"0", "1", "-", "1", "6">>, <<"3", "P", "M">>) }
    \cup { DeleteIntent("en", q) :
             q \in { <<"1", "5">>, <<"1", "5", ":", "0", "0">>, <<"3", "P", "M">>,
                     <<"A", "B">>, <<>>, <<"z">>, Undefined } }
    \cup { DeleteIntent("hi", <<"z">>), DeleteIntent("hi", <<"1", "6">>) }
    \cup { PlainIntent("LIST_EVENTS", "en"), PlainIntent("LIST_EVENTS", "hi"),
           PlainIntent("OTHER", "en") }

Idle == [pc |-> "idle", endpoint |-> "", hasInput |-> FALSE,
         en |-> NoAttempt, hi |-> NoAttempt,
         transcription |-> "", detectedLanguage |-> "",
         intent |-> NoIntent, events |-> <<>>, updatedEvents |-> <<>>,
         resultMessage |-> "", speechText |-> "", response |-> "",
         status |-> 0, error |-> "", output |-> ""]

Init ==
    /\ file = NoFile
    /\ clock = 0
    /\ req = [r \in Requests |-> Idle]
    /\ started = 0
    /\ localStorage = NoFile

\* A catch block that records the error and leaves the request at the stage
\* that failed, to be run again.
FailRetrying(rec, why) == [rec EXCEPT !.error = why]

\* The catch block of a handler: status 500 with an error summary.
Fail(rec, why) == [rec EXCEPT !.pc = "done", !.status = 500, !.error = why]

Tick ==
    /\ clock < MaxClock
    /\ clock' = clock + 1
    /\ UNCHANGED <<file, req, started, localStorage>>

\* A handler that starts the pipeline without looking at its input.
receiveUnchecked(endpoint, hasInput) ==
    [Idle EXCEPT !.pc = IF endpoint = "voice" THEN "transcribe" ELSE "intent",
                 !.endpoint = endpoint, !.hasInput = hasInput,
                 !.transcription = IF endpoint = "text" THEN "typed" ELSE ""]

\* The first lines of a handler: if (!req.file) / if (!text) answers 400 and
\* returns; otherwise the first stage is next.
receive(endpoint, hasInput) ==
    IF hasInput
    THEN [Idle EXCEPT !.pc = IF endpoint = "voice" THEN "transcribe" ELSE "intent",
                      !.endpoint = endpoint, !.hasInput = TRUE,
                      !.transcription = IF endpoint = "text" THEN "typed" ELSE ""]
    ELSE [Idle EXCEPT !.pc = "done", !.endpoint = endpoint, !.status = 400]

\* POST /api/text up to the call of processIntent.
TextRequest(r) ==
    /\ req[r].pc = "idle"
    /\ started < MaxRequests
    /\ started' = started + 1
    /\ \E hasText \in BOOLEAN :
         req' = [req EXCEPT ![r] = receive("text", hasText)]
    /\ UNCHANGED <<file, clock, localStorage>>

\* POST /api/voice up to the first recognition attempt.
VoiceRequest(r) ==
    /\ req[r].pc = "idle"
    /\ started < MaxRequests
    /\ started' = started + 1
    /\ \E hasFile \in BOOLEAN :
         req' = [req EXCEPT ![r] = receive("voice", hasFile)]
    /\ UNCHANGED <<file, clock, localStorage>>

\* alternatives?.[0]?.confidence || 0
Confidence(a) == IF a.error \/ ~a.hasConf THEN 0 ELSE a.conf

\* alternatives?.[0]?.transcript || ''
Transcript(a) == IF a.error THEN "" ELSE a.text

\* A selection that lets Hindi win a tie.
hiWinsOrTies(en, hi) == Confidence(hi) >= Confidence(en)

hiWins(en, hi) == Confidence(hi) > Confidence(en)

transcribedText(en, hi) == IF hiWins(en, hi) THEN Transcript(hi) ELSE Transcript(en)

detectedLanguage(en, hi) == IF hiWins(en, hi) THEN "hi" ELSE "en"

\* A step 1 without the check that both attempts failed.
transcribeOutcomeUnchecked(rec, en, hi) ==
    [rec EXCEPT !.pc = "intent", !.en = en, !.hi = hi,
                !.transcription = transcribedText(en, hi),
                !.detectedLanguage = detectedLanguage(en, hi)]

\* if (enError && hiError) throw ...; otherwise the selection.
transcribeOutcome(rec, en, hi) ==
    IF en.error /\ hi.error
    THEN Fail([rec EXCEPT !.en = en, !.hi = hi], "transcription")
    ELSE [rec EXCEPT !.pc = "intent", !.en = en, !.hi = hi,
                     !.transcription = transcribedText(en, hi),
                     !.detectedLanguage = detectedLanguage(en, hi)]

\* Step 1 of POST /api/voice: both recognition attempts and the selection.
Transcribe(r) ==
    /\ req[r].pc = "transcribe"
    /\ \E en \in Attempts("EN"), hi \in Attempts("HI") :
         req' = [req EXCEPT ![r] = transcribeOutcome(req[r], en, hi)]
    /\ UNCHANGED <<file, clock, started, localStorage>>

\* What the language-model call may yield: a rejected API call, text that
\* JSON.parse rejects, or text that parses to an intent.
ModelOutputs(intents) ==
    { [kind |-> k, intent |-> NoIntent] : k \in {"apiError", "nonJson"} }
    \cup { [kind |-> "json", intent |-> i] : i \in intents }

\* A processIntent whose catch swallows the throw and lets the request go on.
intentOutcomeSwallowing(rec, out) ==
    [rec EXCEPT !.pc = "execute", !.intent = out.intent, !.output = out.kind,
                !.en = NoAttempt, !.hi = NoAttempt]

\* processIntent's try/catch: a throw of the API call or of JSON.parse is
\* logged and rethrown to the handler's catch; a parsed value is returned.
intentOutcome(rec, out) ==
    IF out.kind = "json"
    THEN [rec EXCEPT !.pc = "execute", !.intent = out.intent, !.output = out.kind,
                     !.en = NoAttempt, !.hi = NoAttempt]
    ELSE [Fail(rec, "intent") EXCEPT !.output = out.kind,
                                     !.en = NoAttempt, !.hi = NoAttempt]

\* Step 2: processIntent, one call of the language model.
processIntent(r, intents) ==
    /\ req[r].pc = "intent"
    /\ \E out \in ModelOutputs(intents) :
         req' = [req EXCEPT ![r] = intentOutcome(req[r], out)]
    /\ UNCHANGED <<file, clock, started, localStorage>>

\* The filter predicate of DELETE_EVENT, negated: the event is dropped.
Matches(event, query) ==
    \/ Truthy(event.time) /\ includes(event.time, query)
    \/ Truthy(event.title) /\ includes(toLowerCase(event.title), query)
    \/ Truthy(event.date) /\ includes(event.date, query)

\* updatedEvents.filter(...) with query = intent.data.query.toLowerCase().
deleteFilter(events, rawQuery) ==
    LET query == toLowerCase(rawQuery)
        Keep(e) == ~Matches(e, query)
    IN  SelectSeq(events, Keep)

newEvent(intent, now, rnd) ==
    [id |-> generateId(now, rnd), title |-> intent.data.title,
     date |-> intent.data.date, time |-> intent.data.time,
     language |-> intent.language, createdAt |-> <<Digit(now)>>]

\* A listing that filters on the server: only the events of one date.
listEventsOfOneDate(events) ==
    LET OnDate(e) == e.date = <<"0", "1", "-", "1", "5">>
    IN  SelectSeq(events, OnDate)

\* case 'LIST_EVENTS': updatedEvents stays the copy of the loaded array.
listEvents(events) == events

NotFoundHi == "mujhe vah event nahin mila"
NotFoundEn == "I couldn't find that event."

\* A substitution that ignores intent.language.
notFoundAlwaysEnglish(language) == NotFoundEn

notFound(language) == IF language = "hi" THEN NotFoundHi ELSE NotFoundEn

\* A switch with a default case that throws on an action it does not know.
executeSwitchThrowingDefault(rec, events, now, rnd) ==
    LET intent == rec.intent
        loaded == [rec EXCEPT !.events = events, !.resultMessage = intent.response]
    IN  CASE intent.action = "ADD_EVENT" ->
               [loaded EXCEPT !.pc = "save",
                              !.updatedEvents = Append(events, newEvent(intent, now, rnd))]
          [] intent.action = "DELETE_EVENT" ->
               IF intent.data.query = Undefined
               THEN Fail(loaded, "type")
               ELSE [loaded EXCEPT !.pc = "save",
                                   !.updatedEvents =
                                      deleteFilter(events, intent.data.query)]
          [] intent.action = "LIST_EVENTS" ->
               [loaded EXCEPT !.pc = "speech", !.updatedEvents = listEvents(events)]
          [] OTHER ->
               Fail(loaded, "action")

\* executeAction from its start to its first await of saveEvents (ADD_EVENT,
\* DELETE_EVENT) or to its return (LIST_EVENTS, no matching case).
executeSwitch(rec, events, now, rnd) ==
    LET intent == rec.intent
        loaded == [rec EXCEPT !.events = events, !.resultMessage = intent.response]
    IN  CASE intent.action = "ADD_EVENT" ->
               [loaded EXCEPT !.pc = "save",
                              !.updatedEvents = Append(events, newEvent(intent, now, rnd))]
          [] intent.action = "DELETE_EVENT" ->
               IF intent.data.query = Undefined
               THEN Fail(loaded, "type")
               ELSE [loaded EXCEPT !.pc = "save",
                                   !.updatedEvents =
                                      deleteFilter(events, intent.data.query)]
          [] intent.action = "LIST_EVENTS" ->
               [loaded EXCEPT !.pc = "speech", !.updatedEvents = listEvents(events)]
          [] OTHER ->
               [loaded EXCEPT !.pc = "speech", !.updatedEvents = events]

\* Step 3, first half: loadEvents resolves and the switch runs.
executeLoad(r) ==
    /\ req[r].pc = "execute"
    /\ \E rnd \in Randoms :
         req' = [req EXCEPT ![r] = executeSwitch(req[r], loadEvents(file), clock, rnd)]
    /\ UNCHANGED <<file, clock, started, localStorage>>

\* A substitution made whenever the collection is empty after the delete,
\* whether or not the delete removed anything.
messageAfterSaveWhenEmpty(rec) ==
    IF /\ rec.intent.action = "DELETE_EVENT"
       /\ Len(rec.updatedEvents) = 0
    THEN notFound(rec.intent.language)
    ELSE rec.resultMessage

\* The message executeAction returns once saveEvents has resolved.
messageAfterSave(rec) ==
    IF /\ rec.intent.action = "DELETE_EVENT"
       /\ Len(rec.events) - Len(rec.updatedEvents) = 0
    THEN notFound(rec.intent.language)
    ELSE rec.resultMessage

\* A save that re-reads the file and appends what the request added, instead
\* of writing the request's own array.
saveEventsMerging(r) ==
    /\ req[r].pc = "save"
    /\ file' = JsonFile(IF req[r].intent.action = "ADD_EVENT"
                        THEN Append(loadEvents(file),
                                    req[r].updatedEvents[Len(req[r].updatedEvents)])
                        ELSE req[r].updatedEvents)
    /\ req' = [req EXCEPT ![r] =
                 [@ EXCEPT !.pc = "speech",
                           !.resultMessage = messageAfterSave(req[r])]]
    /\ UNCHANGED <<clock, started, localStorage>>

\* Step 3, second half: saveEvents resolves; the file is replaced by the
\* request's own array, whatever the file holds by then.
saveEvents(r) ==
    /\ req[r].pc = "save"
    /\ file' = JsonFile(req[r].updatedEvents)
    /\ req' = [req EXCEPT ![r] =
                 [@ EXCEPT !.pc = "speech",
                           !.resultMessage = messageAfterSave(req[r])]]
    /\ UNCHANGED <<clock, started, localStorage>>

\* A rejected write that is logged and ignored: executeAction returns as if
\* the events had been saved.
saveEventsFailsIgnored(r) ==
    /\ req[r].pc = "save"
    /\ file' \in {file, CorruptFile}
    /\ req' = [req EXCEPT ![r] = [@ EXCEPT !.pc = "speech", !.error = "storage"]]
    /\ UNCHANGED <<clock, started, localStorage>>

\* saveEvents rejects: writeFile failed before or after truncating the file.
saveEventsFails(r) ==
    /\ req[r].pc = "save"
    /\ file' \in {file, CorruptFile}
    /\ req' = [req EXCEPT ![r] = Fail(@, "storage")]
    /\ UNCHANGED <<clock, started, localStorage>>

\* A handler whose catch block undoes the request's write when synthesis
\* fails: it writes back the array the request had loaded.
generateSpeechRollingBack(r) ==
    /\ req[r].pc = "speech"
    /\ \E ok \in BOOLEAN :
         LET spoken == [req[r] EXCEPT !.speechText = req[r].resultMessage]
         IN  /\ req' = [req EXCEPT ![r] =
                          IF ok THEN [spoken EXCEPT !.pc = "done", !.status = 200,
                                                    !.response = req[r].resultMessage]
                                ELSE Fail(spoken, "synthesis")]
             /\ file' = IF ok \/ req[r].intent.action \notin {"ADD_EVENT", "DELETE_EVENT"}
                        THEN file
                        ELSE JsonFile(req[r].events)
    /\ UNCHANGED <<clock, started, localStorage>>

\* Step 4 and 5: generateSpeech(actionResult.message, intent.language) and
\* the response that follows it, with response: actionResult.message.
generateSpeech(r) ==
    /\ req[r].pc = "speech"
    /\ \E ok \in BOOLEAN :
         LET spoken == [req[r] EXCEPT !.speechText = req[r].resultMessage]
         IN  req' = [req EXCEPT ![r] =
                       IF ok THEN [spoken EXCEPT !.pc = "done", !.status = 200,
                                                 !.response = req[r].resultMessage]
                             ELSE Fail(spoken, "synthesis")]
    /\ UNCHANGED <<file, clock, started, localStorage>>

\* The response has been sent; the handler's locals are gone.
Respond(r) ==
    /\ req[r].pc = "done"
    /\ req' = [req EXCEPT ![r] = Idle]
    /\ UNCHANGED <<file, clock, started, localStorage>>

\* A GET /api/events whose loadEvents lets the readFile error through: with
\* no readable file the handler's catch answers 500.
EventsRequestFailingUnreadable(r) ==
    /\ req[r].pc = "idle"
    /\ started < MaxRequests
    /\ started' = started + 1
    /\ req' = [req EXCEPT ![r] =
                 IF file.kind = "json"
                 THEN [Idle EXCEPT !.pc = "done", !.endpoint = "events",
                                   !.hasInput = TRUE, !.status = 200,
                                   !.events = loadEvents(file),
                                   !.updatedEvents = loadEvents(file)]
                 ELSE Fail([Idle EXCEPT !.endpoint = "events", !.hasInput = TRUE],
                           "storage")]
    /\ UNCHANGED <<file, clock, localStorage>>

\* GET /api/events: loadEvents and the response, with no await between them
\* that another request's write could fall into.
EventsRequest(r) ==
    /\ req[r].pc = "idle"
    /\ started < MaxRequests
    /\ started' = started + 1
    /\ req' = [req EXCEPT ![r] =
                 [Idle EXCEPT !.pc = "done", !.endpoint = "events",
                              !.hasInput = TRUE, !.status = 200, !.events = loadEvents(file),
                              !.updatedEvents = loadEvents(file)]]
    /\ UNCHANGED <<file, clock, localStorage>>

\* The steps of POST /api/text.
TextHandler(r, intents) ==
    \/ TextRequest(r)
    \/ processIntent(r, intents)
    \/ executeLoad(r)
    \/ saveEvents(r)
    \/ saveEventsFails(r)
    \/ generateSpeech(r)
    \/ Respond(r)

\* Every step a request handler can take: POST /api/voice differs from
\* POST /api/text in its first two steps only.
Handler(r, intents) ==
    \/ VoiceRequest(r)
    \/ Transcribe(r)
    \/ EventsRequest(r)
    \/ TextHandler(r, intents)

\* One client at a time: a request is sent once the previous one is answered.
Next ==
    \/ Tick
    \/ Handler(1, Intents)

Spec == Init /\ [][Next]_vars

\* The intents drawn when two requests overlap.
OverlapIntents ==
    { AddIntent("en", <<"A", "b">>, <<"0", "1", "-", "1", "5">>,
                <<"1", "5", ":", "0", "0">>),
      DeleteIntent("en", <<"1", "5">>) }

\* Two clients of POST /api/text: the handlers of two requests interleave at
\* their awaits.
NextOverlap ==
    \/ Tick
    \/ \E r \in Requests : TextHandler(r, OverlapIntents)

SpecOverlap == Init /\ [][NextOverlap]_vars

(* ------------------------------ browser ------------------------------- *)

\* getEventsFromStorage: no item under the key, or an item JSON.parse
\* rejects, gives the empty array.
getEventsFromStorage(item) == IF item.kind = "json" THEN JSONParse(item.doc) ELSE <<>>

\* saveEventsToStorage: the item is the JSON text of the whole array.
saveEventsToStorage(events) == [kind |-> "json", doc |-> JSONStringify(events)]

\* handleCalendarAction: the item under EVENTS_STORAGE_KEY after the switch.
\* ADD_EVENT acts only on a truthy intent.data.title, DELETE_EVENT only on a
\* truthy intent.data.query; any other action stores nothing.
handleCalendarAction(item, intent, now, rnd) ==
    LET events == getEventsFromStorage(item)
    IN  CASE intent.action = "ADD_EVENT" ->
               IF Truthy(intent.data.title)
               THEN saveEventsToStorage(
                      Append(getEventsFromStorage(item),
                             [id |-> generateId(now, rnd),
                              title |-> intent.data.title,
                              date |-> intent.data.date,
                              time |-> intent.data.time,
                              language |-> intent.language,
                              createdAt |-> <<Digit(now)>>]))
               ELSE item
          [] intent.action = "DELETE_EVENT" ->
               IF Truthy(intent.data.query)
               THEN LET query == toLowerCase(intent.data.query)
                        Keep(e) == ~Matches(e, query)
                    IN  saveEventsToStorage(SelectSeq(events, Keep))
               ELSE item
          [] OTHER -> item

\* The fetch of processVoiceInput / handleTextSubmit resolves: a response
\* that is not ok is thrown away with an alert, an ok one goes to
\* displayResults, which calls handleCalendarAction(data.intent).
displayResults(r) ==
    /\ req[r].pc = "done"
    /\ req' = [req EXCEPT ![r] = Idle]
    /\ \E rnd \in Randoms :
         localStorage' = IF req[r].status = 200
                         THEN handleCalendarAction(localStorage, req[r].intent, clock, rnd)
                         ELSE localStorage
    /\ UNCHANGED <<file, clock, started>>

\* The intents drawn for the page's requests: an event with all its fields,
\* one with an empty title, one with no field at all; a delete by date, one
\* with an empty query and one with no query; a listing.
ClientIntents ==
    { AddIntent("en", <<"A", "b">>, <<"0", "1", "-", "1", "5">>,
                <<"1", "5", ":", "0", "0">>),
      AddIntent("hi", <<>>, <<"0", "1", "-", "1", "6">>, <<"3", "P", "M">>),
      AddIntent("en", Undefined, Undefined, Undefined),
      DeleteIntent("en", <<"1", "5">>),
      DeleteIntent("en", <<>>),
      DeleteIntent("hi", Undefined),
      PlainIntent("LIST_EVENTS", "en") }

\* The page and the server side by side: the one client of the server sends
\* a text request (handleTextSubmit) and handles the response before the
\* next.
NextClient ==
    \/ Tick
    \/ TextRequest(1)
    \/ processIntent(1, ClientIntents)
    \/ executeLoad(1)
    \/ saveEvents(1)
    \/ saveEventsFails(1)
    \/ generateSpeech(1)
    \/ displayResults(1)

SpecClient == Init /\ [][NextClient]_vars

(* ------------------------------ claims -------------------------------- *)

\* executeAction has returned to the handler and nothing ran since.
Returned(rec, action) == rec.pc = "speech" /\ rec.intent.action = action

\* C1: after an ADD_EVENT the persisted and returned collection is the loaded
\* one plus one event; the old events are kept, the new event carries the
\* intent's title, date, time and language, and its id differs from every id
\* already in the collection.
C1_AddEvent ==
    \A r \in Requests :
      Returned(req[r], "ADD_EVENT") =>
        LET old == req[r].events
            new == req[r].updatedEvents
            e == new[Len(new)]
            intent == req[r].intent
        IN  /\ loadEvents(file) = new
            /\ Len(new) = Len(old) + 1
            /\ SubSeq(new, 1, Len(old)) = old
            /\ e.title = intent.data.title
            /\ e.date = intent.data.date
            /\ e.time = intent.data.time
            /\ e.language = intent.language
            /\ \A i \in 1..Len(old) : old[i].id # e.id

\* The query as given occurs in one of the event's time, title or date.
QueryOccursIn(e, q) == \E k \in DataKeys : e[k] # Undefined /\ includes(e[k], q)

\* C2: after a DELETE_EVENT whose query equals, or is a substring of, the
\* time, title or date of a stored event, that event is in neither the
\* returned nor the persisted collection.
C2_DeleteRemovesNamed ==
    \A r \in Requests :
      Returned(req[r], "DELETE_EVENT") =>
        \A i \in 1..Len(req[r].events) :
          LET e == req[r].events[i]
          IN  QueryOccursIn(e, req[r].intent.data.query) =>
                /\ \A j \in 1..Len(req[r].updatedEvents) : req[r].updatedEvents[j] # e
                /\ \A j \in 1..Len(loadEvents(file)) : loadEvents(file)[j] # e

\* The match rule as the specification words it: case-insensitive on time and
\* on title, plain on date.
SpecifiedMatch(e, q) ==
    \/ e.time # Undefined /\ includes(toLowerCase(e.time), toLowerCase(q))
    \/ e.title # Undefined /\ includes(toLowerCase(e.title), toLowerCase(q))
    \/ e.date # Undefined /\ includes(e.date, toLowerCase(q))

\* C3: DELETE_EVENT removes exactly the events that match case-insensitively
\* on time or on title, or on date: the collection it returns and persists is
\* the loaded one without those events.
C3_DeleteExactlyMatching ==
    \A r \in Requests :
      Returned(req[r], "DELETE_EVENT") =>
        LET Kept(e) == ~SpecifiedMatch(e, req[r].intent.data.query)
        IN  /\ req[r].updatedEvents = SelectSeq(req[r].events, Kept)
            /\ loadEvents(file) = SelectSeq(req[r].events, Kept)

\* executeAction returned from a DELETE_EVENT that removed nothing.
DeletedNothing(rec) ==
    /\ rec.intent.action = "DELETE_EVENT"
    /\ rec.updatedEvents = rec.events
    /\ rec.pc = "speech" \/ (rec.pc = "done" /\ rec.error \in {"", "synthesis"})

\* C4: a DELETE_EVENT that matches no event leaves the stored collection as
\* it was loaded, does not fail, and returns the fixed not-found message of
\* intent.language (Hindi for "hi", English otherwise), not intent.response.
C4_DeleteNoMatch ==
    [][\A r \in Requests :
         /\ ( /\ req[r].pc = "save"
              /\ req'[r].pc = "speech"
              /\ req[r].intent.action = "DELETE_EVENT"
              /\ req[r].updatedEvents = req[r].events )
            => /\ loadEvents(file') = req[r].events
               /\ req'[r].status = 0 /\ req'[r].error = ""
         /\ DeletedNothing(req'[r])
            => /\ req'[r].resultMessage =
                    (IF req'[r].intent.language = "hi" THEN NotFoundHi ELSE NotFoundEn)
               /\ req'[r].resultMessage # req'[r].intent.response
               /\ req'[r].error = "" => req'[r].status \in {0, 200}]_vars

C4_Witness ==
    \E r \in Requests :
      /\ DeletedNothing(req[r])
      /\ req[r].pc = "done" /\ req[r].status = 200
      /\ req[r].intent.language = "hi"
      /\ Len(req[r].events) > 0
      /\ loadEvents(file) = req[r].events
      /\ req[r].resultMessage = NotFoundHi

\* C5: a LIST_EVENTS request never writes: no step it takes changes the
\* file, executeAction goes from the load straight to its return, and the
\* events it returns are the whole loaded collection.
C5_ListReadsOnly ==
    [][\A r \in Requests :
         (req'[r].intent.action = "LIST_EVENTS" /\ req'[r] # req[r]) =>
           /\ file' = file
           /\ req'[r].pc # "save"
           /\ req[r].pc = "execute" =>
                /\ req'[r].pc = "speech"
                /\ req'[r].events = loadEvents(file)
                /\ req'[r].updatedEvents = loadEvents(file)
           /\ req[r].pc = "speech" => req'[r].updatedEvents = req[r].updatedEvents]_vars

C5_Witness ==
    \E r \in Requests :
      /\ req[r].intent.action = "LIST_EVENTS"
      /\ req[r].pc = "done" /\ req[r].status = 200
      /\ Len(req[r].updatedEvents) = 2
      /\ req[r].updatedEvents[1].date # req[r].updatedEvents[2].date
      /\ loadEvents(file) = req[r].updatedEvents

\* The voice request has made its selection from two attempts.
Selected(rec) == rec.endpoint = "voice" /\ rec.pc = "intent"

\* C6: with both attempts reporting a confidence, the Hindi transcript and
\* the tag "hi" are chosen when the Hindi confidence is strictly higher, the
\* English transcript and "en" otherwise (a tie included); transcript and tag
\* come from the same attempt.
C6_SelectByConfidence ==
    \A r \in Requests :
      (Selected(req[r]) /\ ~req[r].en.error /\ ~req[r].hi.error
         /\ req[r].en.hasConf /\ req[r].hi.hasConf) =>
        LET en == req[r].en
            hi == req[r].hi
            chosen == <<req[r].transcription, req[r].detectedLanguage>>
        IN  /\ hi.conf > en.conf => chosen = <<hi.text, "hi">>
            /\ en.conf > hi.conf => chosen = <<en.text, "en">>
            /\ en.conf = hi.conf => chosen = <<en.text, "en">>

C6_Witness ==
    \E r \in Requests :
      /\ Selected(req[r]) /\ ~req[r].en.error /\ ~req[r].hi.error
      /\ req[r].en.hasConf /\ req[r].hi.hasConf
      /\ req[r].en.conf = 1 /\ req[r].hi.conf = 1
      /\ req[r].detectedLanguage = "en" /\ req[r].transcription = "EN"

\* C7: when exactly one attempt failed, the transcript and the tag of the
\* other attempt are used, whatever its confidence.
C7_OneAttemptFailed ==
    \A r \in Requests :
      Selected(req[r]) =>
        /\ (req[r].en.error /\ ~req[r].hi.error) =>
              /\ req[r].transcription = req[r].hi.text
              /\ req[r].detectedLanguage = "hi"
        /\ (req[r].hi.error /\ ~req[r].en.error) =>
              /\ req[r].transcription = req[r].en.text
              /\ req[r].detectedLanguage = "en"

C9_CorruptIsError ==
    [][\A r \in Requests :
         ( /\ file.kind = "corrupt"
           /\ req'[r] # req[r]
           /\ req[r].pc = "execute" \/ req'[r].endpoint = "events" )
         => req'[r].status = 500]_vars

\* C10: nothing holds back a save whose request loaded before another
\* request's save, and each save puts exactly the saving request's own
\* collection in the file: the last writer wins.
C10_LastWriteWins ==
    [][\A r \in Requests :
         /\ req[r].pc = "save" => ENABLED saveEvents(r)
         /\ (req[r].pc = "save" /\ req'[r].pc = "speech") =>
              loadEvents(file') = req[r].updatedEvents]_vars

\* Two ADD_EVENT requests loaded the same collection; both saved; the file
\* holds the later writer's collection and the other's new event is lost.
C10_Witness ==
    \E r, s \in Requests :
      /\ r # s
      /\ Returned(req[r], "ADD_EVENT") /\ Returned(req[s], "ADD_EVENT")
      /\ req[r].events = req[s].events
      /\ loadEvents(file) = req[s].updatedEvents
      /\ LET lost == req[r].updatedEvents[Len(req[r].updatedEvents)]
         IN  \A j \in 1..Len(loadEvents(file)) : loadEvents(file)[j].id # lost.id

\* The stage a handler may enter from each stage.
StageAfter(rec) ==
    CASE rec.pc = "transcribe" -> {"intent"}
      [] rec.pc = "intent" -> {"execute"}
      [] rec.pc = "execute" -> {"save", "speech"}
      [] rec.pc = "save" -> {"speech"}
      [] OTHER -> {}

\* C11: within a request the stages run in the order transcribe (voice
\* only), processIntent, executeAction, generateSpeech, each entered only from
\* the one before it; a stage that fails is not run again and no later stage
\* is entered: the request ends at once with status 500 and an error text.
C11_StagesInOrder ==
    [][\A r \in Requests :
         LET a == req[r]
             b == req'[r]
         IN  a # b =>
               /\ a.pc = "idle" =>
                    \/ b.pc = "done"
                    \/ b.pc = "transcribe" /\ b.endpoint = "voice"
                    \/ b.pc = "intent" /\ b.endpoint = "text"
               /\ a.pc = "done" => b.pc = "idle"
               /\ a.pc = "speech" => b.pc = "done" /\ b.status \in {200, 500}
               /\ a.pc \in {"transcribe", "intent", "execute", "save"} =>
                    \/ b.pc \in StageAfter(a) /\ b.error = "" /\ b.status = 0
                    \/ b.pc = "done" /\ b.status = 500
               /\ b.pc = "execute" => b.output = "json"
               /\ b.status = 500 => b.pc = "done" /\ b.error # ""
               /\ b.error # "" => b.pc = "done" /\ b.status = 500]_vars

C11_Witness ==
    \E r \in Requests :
      /\ req[r].endpoint = "voice" /\ req[r].pc = "done"
      /\ req[r].status = 500 /\ req[r].error = "synthesis"
      /\ req[r].intent.action = "ADD_EVENT"

\* C12: event ids are unique: in every reachable state no two stored events
\* share an id (an id equal to an earlier one, stored or deleted, is never
\* assigned).
C12_IdsUnique ==
    LET stored == loadEvents(file)
    IN  \A i, j \in 1..Len(stored) : i # j => stored[i].id # stored[j].id

\* C13: a request whose saveEvents was rejected is at its response with
\* status 500: generateSpeech is not reached and no 200 response is sent.
C13_WriteFailureAborts ==
    \A r \in Requests :
      req[r].error = "storage" =>
        /\ req[r].pc = "done"
        /\ req[r].status = 500
        /\ req[r].intent.action \in {"ADD_EVENT", "DELETE_EVENT"}

C13_Witness ==
    \E r \in Requests :
      /\ req[r].error = "storage" /\ req[r].status = 500
      /\ req[r].intent.action = "ADD_EVENT"
      /\ Len(req[r].events) = 1
      /\ loadEvents(file) = req[r].events

\* C14: right after saveEvents(E) resolved, loadEvents on the file gives E:
\* the same events in the same order, equal in every property read (a
\* property that was undefined is absent from the file and reads undefined).
C14_SaveLoadRoundTrip ==
    \A r \in Requests :
      (req[r].pc = "speech" /\ req[r].intent.action \in {"ADD_EVENT", "DELETE_EVENT"})
        => /\ file.kind = "json"
           /\ Len(file.doc) = Len(req[r].updatedEvents)
           /\ loadEvents(file) = req[r].updatedEvents

C14_Witness ==
    \E r \in Requests :
      /\ req[r].pc = "speech" /\ req[r].intent.action = "ADD_EVENT"
      /\ Len(req[r].updatedEvents) = 2
      /\ req[r].updatedEvents[1].title = Undefined
      /\ req[r].updatedEvents[2].title # Undefined
      /\ "title" \notin DOMAIN file.doc[1]
      /\ loadEvents(file) = req[r].updatedEvents

\* C15: with no calendar file nothing fails on the read: list-events
\* answers 200 with an empty events array, executeAction loads the empty
\* collection, and a saved ADD_EVENT leaves a file holding exactly the one
\* new event built from the intent.
C15_AbsentIsEmpty ==
    [][file = NoFile =>
         \A r \in Requests :
           LET a == req[r]
               b == req'[r]
           IN  /\ (a.pc = "idle" /\ b.endpoint = "events") =>
                    b.status = 200 /\ b.updatedEvents = <<>>
               /\ (a.pc = "execute" /\ a # b) =>
                    /\ b.events = <<>>
                    /\ a.intent.action \in {"ADD_EVENT", "LIST_EVENTS"} => b.error = ""
               /\ (a.pc = "save" /\ b.pc = "speech" /\ a.intent.action = "ADD_EVENT") =>
                    /\ Len(loadEvents(file')) = 1
                    /\ LET e == loadEvents(file')[1]
                       IN  /\ e.title = a.intent.data.title
                           /\ e.date = a.intent.data.date
                           /\ e.time = a.intent.data.time
                           /\ e.language = a.intent.language]_vars

\* The first event was saved into a store that had no file, after a
\* list-events had answered on the absent file.
C15_Witness ==
    /\ started = 2
    /\ \E r \in Requests :
         /\ req[r].pc = "speech" /\ req[r].intent.action = "ADD_EVENT"
         /\ req[r].events = <<>>
         /\ Len(loadEvents(file)) = 1

\* C16: when both the English and the Hindi recognition attempt fail, the
\* voice request ends at once with status 500 and a transcription error: it
\* has no intent, no loaded or updated events and no message, the file is
\* what it was, and the only thing the request does afterwards is respond.
C16_BothAttemptsFail ==
    [][\A r \in Requests :
         LET a == req[r]
             b == req'[r]
         IN  /\ (a.pc = "transcribe" /\ b.en.error /\ b.hi.error) =>
                  /\ b.pc = "done" /\ b.status = 500 /\ b.error = "transcription"
                  /\ b.intent = NoIntent /\ b.output = ""
                  /\ b.events = <<>> /\ b.updatedEvents = <<>>
                  /\ b.resultMessage = ""
                  /\ file' = file
             /\ (a.en.error /\ a.hi.error /\ b # a) => (b = Idle /\ file' = file)]_vars

\* A voice request whose two attempts both failed has been answered.
C16_Witness ==
    \E r \in Requests :
      /\ req[r].endpoint = "voice" /\ req[r].hasInput
      /\ req[r].en.error /\ req[r].hi.error
      /\ req[r].pc = "done"

\* C17: a voice request without an audio file and a text request without
\* text are answered 400 in the step that receives them: no attempt, intent,
\* loaded events, message or error is ever recorded for them, the file is
\* what it was, and the only thing the request does afterwards is respond.
C17_NoInputRejected ==
    [][\A r \in Requests :
         LET a == req[r]
             b == req'[r]
         IN  /\ (a.pc = "idle" /\ b.endpoint \in {"voice", "text"} /\ ~b.hasInput) =>
                  /\ b = [Idle EXCEPT !.pc = "done", !.endpoint = b.endpoint,
                                      !.status = 400]
                  /\ file' = file
             /\ (a.endpoint \in {"voice", "text"} /\ ~a.hasInput /\ b # a) =>
                  (b = Idle /\ file' = file)]_vars

\* A voice request has been rejected for its missing audio file, with events
\* in the store.
C17_Witness ==
    /\ Len(loadEvents(file)) > 0
    /\ \E r \in Requests :
         /\ req[r].endpoint = "voice" /\ ~req[r].hasInput
         /\ req[r].status = 400
         /\ started = 3

\* The message executeAction is to return for a request that has loaded its
\* events and computed its updated array.
ExpectedMessage(rec) ==
    IF rec.intent.action = "DELETE_EVENT" /\ rec.updatedEvents = rec.events
    THEN notFound(rec.intent.language)
    ELSE rec.intent.response

\* C18: once executeAction has returned, its message is intent.response for
\* every ADD_EVENT, LIST_EVENTS and DELETE_EVENT that removed an event, and
\* the not-found text only for a DELETE_EVENT that removed none; that message
\* is the text passed to generateSpeech and the response field of the reply.
C18_MessagePassthrough ==
    \A r \in Requests :
      LET rec == req[r]
      IN  (rec.endpoint \in {"voice", "text"} /\ rec.intent # NoIntent) =>
            /\ (rec.pc = "speech" \/ rec.speechText # "") =>
                 rec.resultMessage = ExpectedMessage(rec)
            /\ (rec.pc = "done" /\ (rec.status = 200 \/ rec.error = "synthesis")) =>
                 rec.speechText = ExpectedMessage(rec)
            /\ rec.status = 200 => rec.response = ExpectedMessage(rec)

\* A DELETE_EVENT that removed the only event of the store was answered with
\* the intent's own response.
C18_Witness ==
    \E r \in Requests :
      /\ req[r].status = 200 /\ req[r].intent.action = "DELETE_EVENT"
      /\ Len(req[r].events) = 1 /\ Len(req[r].updatedEvents) = 0
      /\ req[r].response = req[r].intent.response

\* C19: a request whose ADD_EVENT or DELETE_EVENT was saved and whose
\* speech synthesis then failed is answered 500 with nothing sent as the
\* response, yet the file still holds the request's updated array (the added
\* event is its last element, no event the filter removed is left), which
\* is what a list-events then reads.
C19_NoRollback ==
    \A r \in Requests :
      LET rec == req[r]
      IN  (rec.error = "synthesis" /\ rec.intent.action \in {"ADD_EVENT", "DELETE_EVENT"}) =>
            /\ rec.pc = "done" /\ rec.status = 500 /\ rec.response = ""
            /\ file.kind = "json"
            /\ loadEvents(file) = rec.updatedEvents
            /\ rec.intent.action = "ADD_EVENT" =>
                 /\ Len(loadEvents(file)) = Len(rec.events) + 1
                 /\ loadEvents(file)[Len(loadEvents(file))].title = rec.intent.data.title
            /\ rec.intent.action = "DELETE_EVENT" =>
                 \A i \in 1..Len(loadEvents(file)) :
                    ~Matches(loadEvents(file)[i], toLowerCase(rec.intent.data.query))

\* Synthesis failed after a DELETE_EVENT had removed an event from a store of
\* two, and the file holds the one event that was left.
C19_Witness ==
    \E r \in Requests :
      /\ req[r].error = "synthesis" /\ req[r].intent.action = "DELETE_EVENT"
      /\ Len(req[r].events) = 2
      /\ Len(loadEvents(file)) = 1

KnownActions == {"ADD_EVENT", "LIST_EVENTS", "DELETE_EVENT"}

\* C20: for an intent whose action is none of ADD_EVENT, LIST_EVENTS and
\* DELETE_EVENT, no step of the request changes the file or reaches the
\* save; executeAction returns the loaded collection and intent.response,
\* and raises no error.
C20_UnknownActionNoEffect ==
    [][\A r \in Requests :
         (req'[r].intent # NoIntent /\ req'[r].intent.action \notin KnownActions
            /\ req'[r] # req[r]) =>
           /\ file' = file
           /\ req'[r].pc # "save"
           /\ req[r].pc = "execute" =>
                /\ req'[r].pc = "speech"
                /\ req'[r].error = ""
                /\ req'[r].events = loadEvents(file)
                /\ req'[r].updatedEvents = loadEvents(file)
                /\ req'[r].resultMessage = req[r].intent.response
           /\ req[r].pc = "speech" =>
                /\ req'[r].updatedEvents = req[r].updatedEvents
                /\ req'[r].speechText = req[r].intent.response]_vars

\* An intent with an unknown action was answered 200 with the events of a
\* store that is not empty.
C20_Witness ==
    \E r \in Requests :
      /\ req[r].intent # NoIntent /\ req[r].intent.action \notin KnownActions
      /\ req[r].status = 200
      /\ Len(req[r].updatedEvents) > 0
      /\ loadEvents(file) = req[r].updatedEvents

\* An event with a non-empty time, title or date.
HasField(e) == Truthy(e.time) \/ Truthy(e.title) \/ Truthy(e.date)

\* executeAction has returned from a DELETE_EVENT whose query is "".
EmptyQueryDeleted(rec) ==
    /\ rec.pc = "speech"
    /\ rec.intent.action = "DELETE_EVENT"
    /\ rec.intent.data.query = <<>>

\* What an empty query removes and persists: exactly the loaded events with
\* a non-empty time, title or date.
EmptyQueryRemoves(rec) ==
    LET NoField(e) == ~HasField(e)
    IN  /\ rec.updatedEvents = SelectSeq(rec.events, NoField)
        /\ file.kind = "json"
        /\ loadEvents(file) = rec.updatedEvents

\* C21 as stated: a DELETE_EVENT with the empty query removes every event
\* that has a non-empty time, title or date, persists the result, and
\* returns intent.response whenever at least one event was stored.
C21_EmptyQueryAnyStored ==
    \A r \in Requests :
      EmptyQueryDeleted(req[r]) =>
        /\ EmptyQueryRemoves(req[r])
        /\ Len(req[r].events) > 0 => req[r].resultMessage = req[r].intent.response

\* C21 amended: a DELETE_EVENT with the empty query removes every event that
\* has a non-empty time, title or date, persists the result, and returns
\* intent.response whenever at least one stored event has a non-empty time,
\* title or date; when none has, it returns the not-found message.
C21_EmptyQueryDeletesAll ==
    \A r \in Requests :
      EmptyQueryDeleted(req[r]) =>
        /\ EmptyQueryRemoves(req[r])
        /\ IF \E i \in 1..Len(req[r].events) : HasField(req[r].events[i])
           THEN req[r].resultMessage = req[r].intent.response
           ELSE req[r].resultMessage = notFound(req[r].intent.language)

\* An empty query met a store of two events, one of them without any field:
\* the other was removed and the intent's response returned.
C21_Witness ==
    \E r \in Requests :
      /\ EmptyQueryDeleted(req[r])
      /\ Len(req[r].events) = 2 /\ Len(loadEvents(file)) = 1
      /\ req[r].resultMessage = req[r].intent.response

\* The (title, date, time, language) of the events of a collection.
Fields(events) ==
    [i \in 1..Len(events) |->
        [title |-> events[i].title, date |-> events[i].date,
         time |-> events[i].time, language |-> events[i].language]]

\* C22: the page's localStorage collection and the server's file collection
\* stay equal on the (title, date, time, language) of their events: when
\* they were equal as a successful request loaded the file, they are equal
\* again once the page has handled the request's response, for every intent
\* the resolver returned.
C22_StoresStayEqual ==
    [][\A r \in Requests :
         (/\ req[r].pc = "done" /\ req[r].status = 200
          /\ req[r].endpoint \in {"voice", "text"}
          /\ req'[r] = Idle
          /\ Fields(getEventsFromStorage(localStorage)) = Fields(req[r].events))
           => Fields(getEventsFromStorage(localStorage')) = Fields(loadEvents(file'))]_vars

====
